---- MODULE Spec2Model ----
(***************************************************************************)
(* SimpleWebSocket (src/extension/ws-client.js): the frame codec and the   *)
(* connection life cycle, as a state machine.                              *)
(*                                                                         *)
(* A Buffer is a sequence of bytes 0..255; index i of the code (0-based)   *)
(* is element i+1 here.  A JavaScript string is a sequence of code points. *)
(* crypto.randomBytes(4) is an input of every operation that draws a mask. *)
(***************************************************************************)
EXTENDS Integers, Sequences, FiniteSets, Bags, TLC

VARIABLES
    connected,   \* this.connected
    socket,      \* this.socket: "null" or "socket"
    buffer,      \* this._buffer
    req,         \* the http.ClientRequest of connect(): idle, pending, upgraded, failed
    sockState,   \* the net.Socket: none, open, ended, destroyed, closed
    sockError,   \* the net.Socket was destroyed by a write and its 'error' is to come
    net,         \* bytes the server has sent (or will send) that were not yet read
    bytesRead,   \* socket.bytesRead: bytes handed to the 'data' listener so far
    trace,       \* what the caller and the socket saw, in order: calls, emits, writes
    pc,          \* "idle", or "while": _processFrames is at its loop test (line 132)
    \* extension.js
    isProcessing,   \* let isProcessing
    processTimer,   \* let processTimer: the pending 300 ms timers of scheduleProcess
    retryTimers,    \* pending 2 s timers of processRequestFile (line 474)
    startupTimer,   \* the 3 s timer of activate (line 98) is pending
    requestFile,    \* request.json: "absent" or [id, content]
    written,        \* times the CLI has written request.json
    events,         \* watcher events delivered so far
    clipboard,      \* the system clipboard
    inj,            \* the calls of injectPrompt in progress: a bag of their locals
    started,        \* calls of injectPrompt so far
    catches,        \* calls of processRequestFile whose await of injectPrompt was
                    \* rejected and whose catch (494-497) has not run yet
    fileCalls,      \* the writes of request.json for which injectPrompt was called
    gatewaySocket,     \* let gatewaySocket: 0 for null, or the number of a connection
    reconnectTimer,    \* the delay in ms of the pending timer of scheduleReconnect, 0: none
    reconnectAttempts, \* let reconnectAttempts
    conns,             \* the SimpleWebSocket objects connectToGateway has created
    deactivated        \* disconnectGateway() has run: the extension is disposed of

wsVars == <<connected, socket, buffer, req, sockState, sockError, net, bytesRead, trace>>

extVars == <<isProcessing, processTimer, retryTimers, startupTimer, requestFile,
             written, events, clipboard, inj, started, catches, fileCalls>>

gwVars == <<gatewaySocket, reconnectTimer, reconnectAttempts, conns, deactivated>>

vars == <<wsVars, pc, extVars, gwVars>>

(***************************************************************************)
(* Bytes and bit operations                                                *)
(***************************************************************************)
Min(a, b) == IF a < b THEN a ELSE b

Max(a, b) == IF a > b THEN a ELSE b

\* A sequence built by a function constructor, as a tuple.
AsSeq(f) == f \o <<>>

Bit(a, i) == (a \div (2^i)) % 2

\* a ^ b on two bytes
Xor8(a, b) ==
    LET X(i) == ((Bit(a, i) + Bit(b, i)) % 2) * (2^i)
    IN  X(0) + X(1) + X(2) + X(3) + X(4) + X(5) + X(6) + X(7)

XorTable == [a \in 0..255 |-> [b \in 0..255 |-> Xor8(a, b)]]

\* (a | b) stored into a Buffer element: the low 8 bits of the bitwise or
Or8(a, b) ==
    LET O(i) == Max(Bit(a, i), Bit(b, i)) * (2^i)
    IN  O(0) + O(1) + O(2) + O(3) + O(4) + O(5) + O(6) + O(7)

\* a & b on two bytes
And8(a, b) ==
    LET A(i) == Bit(a, i) * Bit(b, i) * (2^i)
    IN  A(0) + A(1) + A(2) + A(3) + A(4) + A(5) + A(6) + A(7)

\* buf.slice(start, end): clamped to the buffer, 0-based, end exclusive
Slice(buf, start, end) ==
    SubSeq(buf, Min(start, Len(buf)) + 1, Min(end, Len(buf)))

\* the two bytes of v written little-endian
UInt16LE(v) == << v % 256, (v \div 256) % 256 >>

\* buf.writeUInt16BE(v): two bytes, big-endian
UInt16BE(v) == << (v \div 256) % 256, v % 256 >>

\* buf.writeUInt32BE(v): four bytes, big-endian
UInt32BE(v) ==
    << (v \div 16777216) % 256, (v \div 65536) % 256, (v \div 256) % 256, v % 256 >>

\* buf.readUInt16BE(off)
readUInt16BE(buf, off) == buf[off + 1] * 256 + buf[off + 2]

\* buf.readUInt32BE(off)
readUInt32BE(buf, off) ==
    buf[off + 1] * 16777216 + buf[off + 2] * 65536 + buf[off + 3] * 256 + buf[off + 4]

(***************************************************************************)
(* UTF-8: Buffer.from(data, 'utf-8') and payload.toString('utf-8')         *)
(***************************************************************************)
EncodeCodePoint(cp) ==
    IF cp < 128 THEN << cp >>
    ELSE IF cp < 2048 THEN << 192 + (cp \div 64), 128 + (cp % 64) >>
    ELSE IF cp >= 55296 /\ cp <= 57343 THEN << 239, 191, 189 >>  \* lone surrogate: U+FFFD
    ELSE IF cp < 65536
         THEN << 224 + (cp \div 4096), 128 + ((cp \div 64) % 64), 128 + (cp % 64) >>
    ELSE << 240 + (cp \div 262144), 128 + ((cp \div 4096) % 64),
            128 + ((cp \div 64) % 64), 128 + (cp % 64) >>

\* Buffer.from(data, 'utf-8'): the UTF-8 bytes of a string
RECURSIVE BufferFromUtf8(_)
BufferFromUtf8(s) ==
    IF Len(s) = 0 THEN <<>>
    ELSE IF Len(s) = 1 THEN EncodeCodePoint(s[1])
    ELSE LET h == Len(s) \div 2
         IN  BufferFromUtf8(SubSeq(s, 1, h)) \o BufferFromUtf8(SubSeq(s, h + 1, Len(s)))

IsCont(b) == b >= 128 /\ b <= 191

\* continuation bytes a lead byte announces (0: not a lead byte)
Utf8Need(b) ==
    IF b >= 194 /\ b <= 223 THEN 1
    ELSE IF b >= 224 /\ b <= 239 THEN 2
    ELSE IF b >= 240 /\ b <= 244 THEN 3
    ELSE 0

\* the j-th byte after lead is acceptable (the second byte's range depends on the lead)
Utf8ValidCont(lead, j, c) ==
    IF j = 1
    THEN /\ c >= (IF lead = 224 THEN 160 ELSE IF lead = 240 THEN 144 ELSE 128)
         /\ c <= (IF lead = 237 THEN 159 ELSE IF lead = 244 THEN 143 ELSE 191)
    ELSE IsCont(c)

\* how many continuation bytes the decoder takes after the byte at i
Utf8Run(b, i) ==
    LET need == Utf8Need(b[i])
        ok(j) == i + j <= Len(b) /\ Utf8ValidCont(b[i], j, b[i + j])
    IN  IF need = 0 \/ ~ok(1) THEN 0
        ELSE IF need = 1 \/ ~ok(2) THEN 1
        ELSE IF need = 2 \/ ~ok(3) THEN 2
        ELSE 3

\* the byte at i belongs to the sequence a lead byte before it started
Utf8Consumed(b, i) ==
    /\ IsCont(b[i])
    /\ \E k \in 1..Min(3, i - 1) : Utf8Run(b, i - k) >= k

\* the code point decoded from the sequence starting at i (U+FFFD when ill-formed)
Utf8CodePointAt(b, i) ==
    LET c == b[i]
        need == Utf8Need(c)
    IN  IF c < 128 THEN c
        ELSE IF need = 0 \/ Utf8Run(b, i) < need THEN 65533
        ELSE IF need = 1 THEN (c - 192) * 64 + (b[i + 1] - 128)
        ELSE IF need = 2
             THEN (c - 224) * 4096 + (b[i + 1] - 128) * 64 + (b[i + 2] - 128)
        ELSE (c - 240) * 262144 + (b[i + 1] - 128) * 4096
             + (b[i + 2] - 128) * 64 + (b[i + 3] - 128)

\* payload.toString('utf-8'): the string a buffer decodes to
toStringUtf8(b) ==
    LET starts == SelectSeq(AsSeq([i \in 1..Len(b) |-> i]),
                            LAMBDA i : ~Utf8Consumed(b, i))
    IN  AsSeq([j \in 1..Len(starts) |-> Utf8CodePointAt(b, starts[j])])

(***************************************************************************)
(* Frame codec                                                             *)
(***************************************************************************)
OpText == 1

OpClose == 8

OpPing == 9

\* the loop with the key byte after the right one: mask[(i + 1) % 4]
MaskPayload_KeyShift(payload, mask) ==
    AsSeq([i \in 1..Len(payload) |-> XorTable[payload[i]][mask[(i % 4) + 1]]])

\* masked[i] = payload[i] ^ mask[i % 4], and the decoder's unmasking loop
MaskPayload(payload, mask) ==
    AsSeq([i \in 1..Len(payload) |-> XorTable[payload[i]][mask[((i - 1) % 4) + 1]]])

\* _encodeFrame with "length <= 126" for its first test
_encodeFrame_Le126(payload, mask) ==
    LET length == Len(payload)
        masked == MaskPayload(payload, mask)
    IN  IF length <= 126
        THEN << 129, Or8(128, length) >> \o mask \o masked
        ELSE IF length < 65536
        THEN << 129, Or8(128, 126) >> \o UInt16BE(length) \o mask \o masked
        ELSE << 129, Or8(128, 127) >> \o UInt32BE(0) \o UInt32BE(length)
             \o mask \o masked

\* _encodeFrame(payload) with mask = crypto.randomBytes(4)
_encodeFrame(payload, mask) ==
    LET length == Len(payload)
        masked == MaskPayload(payload, mask)
    IN  IF length < 126
        THEN << 129, Or8(128, length) >> \o mask \o masked
        ELSE IF length < 65536
        THEN << 129, Or8(128, 126) >> \o UInt16BE(length) \o mask \o masked
        ELSE << 129, Or8(128, 127) >> \o UInt32BE(0) \o UInt32BE(length)
             \o mask \o masked

\* the pong buffer with the payload copied and not masked
PongFrame_NotMasked(payload, mask) ==
    << 138, Or8(128, Len(payload) % 256) >> \o mask \o payload

\* the buffer _sendPong(payload) passes to socket.write
PongFrame(payload, mask) ==
    << 138, Or8(128, Len(payload) % 256) >> \o mask \o MaskPayload(payload, mask)

\* the 6-byte frame close() passes to socket.write
CloseFrame(mask) == << 136, 128 >> \o mask

(***************************************************************************)
(* The observable trace: API calls, events emitted to the caller, and the  *)
(* buffers passed to socket.write, in the order they happen.               *)
(***************************************************************************)
Call(name, data, ok) == [kind |-> "call", name |-> name, data |-> data, ok |-> ok]

Emit(name, data) == [kind |-> "emit", name |-> name, data |-> data, ok |-> TRUE]

Write(bytes) == [kind |-> "write", name |-> "socket", data |-> bytes, ok |-> TRUE]

Calls(name) == SelectSeq(trace, LAMBDA e : e.kind = "call" /\ e.name = name)

Emits(name) == SelectSeq(trace, LAMBDA e : e.kind = "emit" /\ e.name = name)

Writes == SelectSeq(trace, LAMBDA e : e.kind = "write")

(***************************************************************************)
(* The decoder                                                             *)
(***************************************************************************)
\* _sendPong(payload): nothing without a socket, else one socket.write
_sendPong(payload, sock, mask) ==
    IF sock = "null" THEN <<>> ELSE << Write(PongFrame(payload, mask)) >>

\* the test with "<=" for "<"
NeedMoreData_Le(buf, n) == Len(buf) <= n

\* if (this._buffer.length < n) return;  // Need more data
NeedMoreData(buf, n) == Len(buf) < n

RECURSIVE _processFrames(_, _, _)

\* opcode 0x08 without the return: the loop goes on after _onClose()
OnCloseFrame_NoReturn(rest, sock, masks) ==
    LET r == _processFrames(rest, "null", masks)
    IN  [r EXCEPT !.out = << Emit("close", <<>>) >> \o @, !.closed = TRUE]

\* opcode 0x08: this._onClose(); return;  -- the rest of the buffer stays
OnCloseFrame(rest, sock, masks) ==
    [buffer |-> rest, out |-> << Emit("close", <<>>) >>, closed |-> TRUE]

\* the offset without the 4 bytes of the mask key
HeaderSize_NoKey(len7, masked) ==
    IF len7 = 126 THEN 4 ELSE IF len7 = 127 THEN 10 ELSE 2

\* offset: 2, 4 or 10 bytes by the 7-bit length, and 4 more when masked (138-150)
HeaderSize(len7, masked) ==
    (IF len7 = 126 THEN 4 ELSE IF len7 = 127 THEN 10 ELSE 2) + (IF masked THEN 4 ELSE 0)

\* the buffer kept as it is
Consume_Nothing(buf, n) == buf

\* this._buffer = this._buffer.slice(offset + payloadLength)
Consume(buf, n) == Slice(buf, n, Len(buf))

\* an opcode that is not handled, with the return of the Close branch
Ignored_Return(rest) ==
    [buffer |-> rest, out |-> <<>>, closed |-> FALSE, returns |-> TRUE]

\* // Ignore other opcodes (pong, binary, continuation): no branch of lines
\* 164-174 is taken and the loop goes to its test again
Ignored(rest) ==
    [buffer |-> rest, out |-> <<>>, closed |-> FALSE, returns |-> FALSE]

\* One iteration of the while loop of _processFrames on this._buffer = buf, which
\* has 2 bytes or more.  masks: the values crypto.randomBytes(4) returns from
\* here on.  Result: the buffer left, what was emitted and written in order,
\* whether _onClose() was called, and whether the iteration ended with return.
LoopBody(buf, sock, masks) ==
    LET byte0  == buf[1]
        byte1  == buf[2]
        opcode == And8(byte0, 15)
        masked == And8(byte1, 128) # 0
        len7   == And8(byte1, 127)
        stop   == [buffer |-> buf, out |-> <<>>, closed |-> FALSE, returns |-> TRUE]
    IN
    IF len7 = 126 /\ NeedMoreData(buf, 4) THEN stop
    ELSE IF len7 = 127 /\ NeedMoreData(buf, 10) THEN stop
    ELSE
    LET payloadLength == IF len7 = 126 THEN readUInt16BE(buf, 2)
                         ELSE IF len7 = 127 THEN readUInt32BE(buf, 6)
                         ELSE len7
        offset == HeaderSize(len7, masked)
    IN
    IF NeedMoreData(buf, offset + payloadLength) THEN stop
    ELSE
    LET raw     == Slice(buf, offset, offset + payloadLength)
        payload == IF masked THEN MaskPayload(raw, Slice(buf, offset - 4, offset))
                   ELSE raw
        rest    == Consume(buf, offset + payloadLength)
    IN
    IF opcode = OpText
    THEN [buffer |-> rest, out |-> << Emit("message", toStringUtf8(payload)) >>,
          closed |-> FALSE, returns |-> FALSE]
    ELSE IF opcode = OpClose
    THEN LET r == OnCloseFrame(rest, sock, masks)
         IN  [buffer |-> r.buffer, out |-> r.out, closed |-> r.closed, returns |-> TRUE]
    ELSE IF opcode = OpPing
    THEN [buffer |-> rest, out |-> _sendPong(payload, sock, Head(masks)),
          closed |-> FALSE, returns |-> FALSE]
    ELSE Ignored(rest)

\* One run of _processFrames over this._buffer = buf.  masks: the values
\* crypto.randomBytes(4) returns to the _sendPong calls of this run, in order.
\* Result: the buffer left, what was emitted and written in order, and whether
\* the run called _onClose().
_processFrames(buf, sock, masks) ==
    IF Len(buf) < 2
    THEN [buffer |-> buf, out |-> <<>>, closed |-> FALSE]
    ELSE LET it == LoopBody(buf, sock, masks)
         IN  IF it.returns
             THEN [buffer |-> it.buffer, out |-> it.out, closed |-> it.closed]
             ELSE LET later == IF And8(buf[1], 15) = OpPing
                               THEN Tail(masks) \o << Head(masks) >>
                               ELSE masks
                      r == _processFrames(it.buffer, sock, later)
                  IN  [r EXCEPT !.out = it.out \o @]

\* the chunk alone, what was buffered dropped
Concat_ChunkOnly(buf, chunk) == chunk

\* this._buffer = Buffer.concat([this._buffer, chunk])
Concat(buf, chunk) == buf \o chunk

(***************************************************************************)
(* Inputs                                                                  *)
(***************************************************************************)
\* the value crypto.randomBytes(4) returns in the life-cycle specification
Masks == { << 55, 250, 33, 61 >> }

\* Ping frames in one decode pass, at most; _sendPong draws a mask for each
MaxPongs == 2

\* the values crypto.randomBytes(4) returns to the _sendPong calls of one decode
\* pass, in the order of the calls
MaskSeqs(M) == [1..MaxPongs -> M]

\* "hi"
Hi == << 104, 105 >>

TextHi == << 129, 2 >> \o Hi

PingAbc == << 137, 3, 97, 98, 99 >>

PongEmpty == << 138, 0 >>

\* close, status 1000
CloseNormal == << 136, 2, 3, 232 >>

\* n printable ASCII characters
AsciiString(n) == AsSeq([i \in 1..n |-> 32 + ((i * 7) % 95)])

\* a Ping frame with the 2-byte length and 126 bytes of payload
LongPing == << 137, 126, 0, 126 >> \o AsciiString(126)

\* what the server sends over the life of one connection
ServerStreams ==
    { <<>>, TextHi, PingAbc, PongEmpty, CloseNormal,
      TextHi \o TextHi, PingAbc \o TextHi, TextHi \o CloseNormal,
      CloseNormal \o TextHi, CloseNormal \o PingAbc, LongPing }

\* bytes of the server's stream that arrive together with the upgrade response
HeadSizes == { 0, 1, 4 }

\* strings the caller sends
SendData == { Hi }

\* send() calls, close() calls per connection, at most
MaxSends == 1

MaxCloses == 2

\* A 'data' event may end at any of the first HeadProbe bytes of the stream, at
\* any of its last TailProbe + 1 bytes, and in its middle.
HeadProbe == 16

TailProbe == 2

ChunkEnds ==
    { e \in (1..HeadProbe) \cup ((Len(net) - TailProbe)..Len(net)) \cup { Len(net) \div 2 } :
        e > bytesRead /\ e <= Len(net) }

\* "WebSocket upgrade timeout"
TimeoutMessage ==
    << 87, 101, 98, 83, 111, 99, 107, 101, 116, 32, 117, 112, 103, 114, 97, 100, 101,
       32, 116, 105, 109, 101, 111, 117, 116 >>

(***************************************************************************)
(* extension.js after activate()                                           *)
(***************************************************************************)
\* a SimpleWebSocket after new SimpleWebSocket(url) and connect(): the upgrade
\* request is out (ws-client.js 14-57)
Connecting == [req |-> "pending", connected |-> FALSE, socket |-> "null", sockState |-> "none"]

\* request.json does not exist
NoFile == [id |-> 0, content |-> "absent"]

\* the module-level state after activate(); files: what request.json may hold
\* when the extension starts.  activate() has called connectToGateway() (line 50).
Activated(files) ==
    /\ isProcessing = FALSE
    /\ processTimer = 0
    /\ retryTimers = 0
    /\ startupTimer = TRUE
    /\ requestFile \in files
    /\ written = requestFile.id
    /\ events = 0
    /\ clipboard = "user"
    /\ inj = EmptyBag
    /\ started = 0
    /\ catches = 0
    /\ fileCalls = <<>>
    /\ gatewaySocket = 1
    /\ reconnectTimer = 0
    /\ reconnectAttempts = 0
    /\ conns = << Connecting >>
    /\ deactivated = FALSE

(***************************************************************************)
(* The connection                                                          *)
(***************************************************************************)
\* new SimpleWebSocket(url); net is what the server is going to send
Init ==
    /\ connected = FALSE
    /\ socket = "null"
    /\ buffer = <<>>
    /\ req = "idle"
    /\ sockState = "none"
    /\ sockError = FALSE
    /\ net \in ServerStreams
    /\ bytesRead = 0
    /\ trace = <<>>
    /\ pc = "idle"
    /\ Activated({NoFile})

\* connect(): the upgrade request goes out (called once per object,
\* extension.js connectToGateway)
Connect ==
    /\ req = "idle"
    /\ req' = "pending"
    /\ trace' = Append(trace, Call("connect", <<>>, TRUE))
    /\ UNCHANGED <<connected, socket, buffer, sockState, sockError, net, bytesRead>>
    /\ UNCHANGED <<pc, extVars, gwVars>>

\* req.on('upgrade', (res, socket) => ...): the third argument of the event, the
\* h bytes read together with the response, is not taken
Upgrade(h) ==
    /\ req = "pending"
    /\ h <= Len(net)
    /\ req' = "upgraded"
    /\ socket' = "socket"
    /\ connected' = TRUE
    /\ sockState' = "open"
    /\ trace' = Append(trace, Emit("open", <<>>))
    /\ bytesRead' = h
    /\ UNCHANGED <<buffer, sockError, net>>
    /\ UNCHANGED <<pc, extVars, gwVars>>

\* req.on('error', ...)
ReqError ==
    /\ req = "pending"
    /\ req' = "failed"
    /\ trace' = Append(trace, Emit("error", <<>>))
    /\ UNCHANGED <<connected, socket, buffer, sockState, sockError, net, bytesRead>>
    /\ UNCHANGED <<pc, extVars, gwVars>>

\* the timeout callback without req.destroy: the request goes on
ReqTimeout_NoDestroy ==
    /\ req = "pending"
    /\ trace' = Append(trace, Emit("error", TimeoutMessage))
    /\ UNCHANGED <<connected, socket, buffer, req, sockState, sockError, net, bytesRead>>
    /\ UNCHANGED <<pc, extVars, gwVars>>

\* req.setTimeout(10000, ...): req.destroy(err) makes the request emit 'error'
ReqTimeout ==
    /\ req = "pending"
    /\ req' = "failed"
    /\ trace' = Append(trace, Emit("error", TimeoutMessage))
    /\ UNCHANGED <<connected, socket, buffer, sockState, sockError, net, bytesRead>>
    /\ UNCHANGED <<pc, extVars, gwVars>>

\* socket.write on a net.Socket whose writable side has ended ("write after
\* end"): the socket is destroyed at once; its 'error' and 'close' come later
WriteAfterEnd(st) == st = "ended"

\* the net.Socket after socket.write
SocketWrite(st) == IF WriteAfterEnd(st) THEN "destroyed" ELSE st

\* send(data)
Send(data, mask) ==
    /\ IF ~connected \/ socket = "null"
       THEN /\ trace' = Append(trace, Call("send", data, FALSE))
            /\ UNCHANGED <<sockState, sockError>>
       ELSE /\ trace' = trace \o << Call("send", data, TRUE),
                                    Write(_encodeFrame(BufferFromUtf8(data), mask)) >>
            /\ sockState' = SocketWrite(sockState)
            /\ sockError' = (sockError \/ WriteAfterEnd(sockState))
    /\ UNCHANGED <<connected, socket, buffer, req, net, bytesRead>>
    /\ UNCHANGED <<pc, extVars, gwVars>>

\* socket.end(): the writable side ends; the socket closes later
SocketEnd(st) == IF st = "open" THEN "ended" ELSE st

\* socket.destroy(): no more I/O; 'close' is emitted later
SocketDestroy(st) == IF st \in {"open", "ended"} THEN "destroyed" ELSE st

\* close()
Close(mask) ==
    /\ IF socket # "null"
       THEN /\ trace' = trace \o << Call("close", <<>>, TRUE), Write(CloseFrame(mask)) >>
            /\ sockState' = SocketEnd(SocketWrite(sockState))
            /\ sockError' = (sockError \/ WriteAfterEnd(sockState))
       ELSE /\ trace' = Append(trace, Call("close", <<>>, TRUE))
            /\ UNCHANGED <<sockState, sockError>>
    /\ connected' = FALSE
    /\ UNCHANGED <<socket, buffer, req, net, bytesRead>>
    /\ UNCHANGED <<pc, extVars, gwVars>>

\* _onClose() with the net.Socket in state st, up to its last line, which emits
\* 'close' (the caller of this definition appends it to the trace)
_onClose(st) ==
    /\ connected' = FALSE
    /\ sockState' = IF socket # "null" THEN SocketDestroy(st) ELSE st
    /\ socket' = "null"

\* socket.on('data', ...): _onData(chunk), chunk the stream's bytes up to e
OnData(e, masks) ==
    /\ sockState \in {"open", "ended"}
    /\ e \in ChunkEnds
    /\ LET chunk  == SubSeq(net, bytesRead + 1, e)
           r      == _processFrames(Concat(buffer, chunk), socket, masks)
           writes == \E i \in DOMAIN r.out : r.out[i].kind = "write"
           st     == IF writes THEN SocketWrite(sockState) ELSE sockState
       IN  /\ buffer' = r.buffer
           /\ trace' = trace \o r.out
           /\ sockError' = (sockError \/ (writes /\ WriteAfterEnd(sockState)))
           /\ IF r.closed
              THEN _onClose(st)
              ELSE sockState' = st /\ UNCHANGED <<connected, socket>>
    /\ bytesRead' = e
    /\ UNCHANGED <<req, net>>
    /\ UNCHANGED <<pc, extVars, gwVars>>

\* socket.on('close', ...): the socket is fully closed (the peer closed, or after
\* end(), destroy() or an error); emitted once per socket, after its 'error'
SocketClose ==
    /\ sockState \in {"open", "ended", "destroyed"}
    /\ ~sockError
    /\ _onClose("closed")
    /\ trace' = Append(trace, Emit("close", <<>>))
    /\ UNCHANGED <<buffer, req, sockError, net, bytesRead>>
    /\ UNCHANGED <<pc, extVars, gwVars>>

\* socket.on('error', ...): the socket fails and net.Socket destroys itself,
\* or the 'error' of a write after end comes
SocketError ==
    /\ (sockState \in {"open", "ended"} \/ sockError)
    /\ sockState' = "destroyed"
    /\ sockError' = FALSE
    /\ trace' = Append(trace, Emit("error", <<>>))
    /\ UNCHANGED <<connected, socket, buffer, req, net, bytesRead>>
    /\ UNCHANGED <<pc, extVars, gwVars>>

Next ==
    \/ Connect
    \/ \E h \in HeadSizes : Upgrade(h)
    \/ ReqError
    \/ ReqTimeout
    \/ \E data \in SendData, mask \in Masks :
          Len(Calls("send")) < MaxSends /\ Send(data, mask)
    \/ \E mask \in Masks : Len(Calls("close")) < MaxCloses /\ Close(mask)
    \/ \E e \in ChunkEnds, masks \in MaskSeqs(Masks) : OnData(e, masks)
    \/ SocketClose
    \/ SocketError

Spec == Init /\ [][Next]_vars

TypeOK ==
    /\ connected \in BOOLEAN
    /\ socket \in {"null", "socket"}
    /\ req \in {"idle", "pending", "upgraded", "failed"}
    /\ sockState \in {"none", "open", "ended", "destroyed", "closed"}
    /\ sockError \in BOOLEAN
    /\ bytesRead \in 0..Len(net)

(***************************************************************************)
(* The codec on an open connection: one frame or a short stream from the   *)
(* server, or the client's own frame sent back to it, cut into chunks.     *)
(***************************************************************************)
\* values of crypto.randomBytes(4)
CodecMasks == { << 55, 250, 33, 61 >>, << 255, 0, 128, 1 >> }

\* payload lengths around the limits of the three length classes
PayloadSizes == { 0, 1, 10, 125, 126, 127, 65535, 65536 }

\* strings passed to send(): ASCII of every size, 2-, 3- and 4-byte characters,
\* and a lone surrogate
CodecData ==
    { AsciiString(n) : n \in PayloadSizes } \cup { << 233, 8364, 128512 >>, << 55357 >> }

\* an unmasked Ping frame with a payload of at most 125 bytes
Ping(p) == << 137, Len(p) >> \o p

\* a masked Ping frame with a payload of at most 125 bytes
MaskedPing(p, mask) == << 137, 128 + Len(p) >> \o mask \o MaskPayload(p, mask)

PingPayloads == { <<>>, << 97, 98, 99 >>, AsciiString(125) }

\* a masked Pong frame with 3 bytes of payload
MaskedPong == << 138, 131, 1, 2, 3, 4, 96, 96, 96 >>

DecoderStreams ==
    { <<>>, TextHi, TextHi \o TextHi,
      << 129, 126, 0, 2 >> \o Hi,                          \* text, 16-bit length
      << 129, 127, 0, 0, 0, 0, 0, 0, 0, 2 >> \o Hi,        \* text, 64-bit length
      << 129, 127, 0, 0, 0, 1, 0, 0, 0, 2 >> \o Hi,        \* the same, 2^32 + 2 declared
      << 130, 1, 255 >>,                                   \* binary
      << 128, 1, 120 >>,                                   \* continuation
      PongEmpty, PongEmpty \o TextHi,
      << 136, 0 >>, CloseNormal, CloseNormal \o TextHi, CloseNormal \o PingAbc,
      TextHi \o CloseNormal, PingAbc \o TextHi, PingAbc \o PingAbc, LongPing,
      MaskedPong, MaskedPong \o TextHi }
    \cup { Ping(p) : p \in PingPayloads }
    \cup { MaskedPing(p, << 1, 2, 3, 4 >>) : p \in PingPayloads }

\* the buffer begins with a whole frame, as the decoder delimits frames
HoldsCompleteFrame(buf) ==
    /\ Len(buf) >= 2
    /\ LET len7 == buf[2] % 128
           key  == IF buf[2] >= 128 THEN 4 ELSE 0
       IN  IF len7 = 126
           THEN Len(buf) >= 4 /\ Len(buf) >= 4 + key + buf[3] * 256 + buf[4]
           ELSE IF len7 = 127
           THEN /\ Len(buf) >= 10
                /\ Len(buf) >= 10 + key + buf[7] * 16777216 + buf[8] * 65536
                                + buf[9] * 256 + buf[10]
           ELSE Len(buf) >= 2 + key + len7

\* a frame's header as a receiver reads it: the bytes before the payload, and
\* the payload length it declares
HeaderOf(f) ==
    (IF f[2] % 128 = 126 THEN 4 ELSE IF f[2] % 128 = 127 THEN 10 ELSE 2)
    + (IF f[2] >= 128 THEN 4 ELSE 0)

DeclaredOf(f) ==
    IF f[2] % 128 = 126 THEN f[3] * 256 + f[4]
    ELSE IF f[2] % 128 = 127
    THEN f[7] * 16777216 + f[8] * 65536 + f[9] * 256 + f[10]
    ELSE f[2] % 128

RECURSIVE HasPing(_)

\* a stream of whole frames holds a Ping frame
HasPing(s) ==
    /\ HoldsCompleteFrame(s)
    /\ \/ s[1] % 16 = 9
       \/ HasPing(SubSeq(s, HeaderOf(s) + DeclaredOf(s) + 1, Len(s)))

\* crypto.randomBytes(4) is called by _sendPong alone: the decode passes over a
\* stream without a Ping frame draw nothing, and one sequence stands for all
Draws(M) == IF HasPing(net) THEN MaskSeqs(M) ELSE { CHOOSE ms \in MaskSeqs(M) : TRUE }

\* the connection after connect() and an upgrade response with no head bytes
DecoderInit ==
    /\ connected = TRUE
    /\ socket = "socket"
    /\ buffer = <<>>
    /\ req = "upgraded"
    /\ sockState = "open"
    /\ sockError = FALSE
    /\ net \in DecoderStreams
    /\ bytesRead = 0
    /\ trace = << Call("connect", <<>>, TRUE), Emit("open", <<>>) >>
    /\ pc = "idle"
    /\ Activated({NoFile})

\* the server sends the client's first frame back as it is
Loopback ==
    /\ net = <<>>
    /\ Writes # <<>>
    /\ net' = Writes[1].data
    /\ UNCHANGED <<connected, socket, buffer, req, sockState, sockError, bytesRead, trace>>
    /\ UNCHANGED <<pc, extVars, gwVars>>

DecoderNext ==
    \/ \E data \in CodecData, mask \in CodecMasks :
          net = <<>> /\ Calls("send") = <<>> /\ Send(data, mask)
    \/ Loopback
    \/ \E e \in ChunkEnds, masks \in Draws(CodecMasks) : OnData(e, masks)

DecoderSpec == DecoderInit /\ [][DecoderNext]_vars

(***************************************************************************)
(* One decode pass, iteration by iteration: _onData has appended its chunk *)
(* and _processFrames is at the test of its while loop.                    *)
(***************************************************************************)
\* buffers of up to MaxBuf bytes drawn from ByteSample, headers that do not fit
\* what follows them included
MaxBuf == 4

\* opcodes 0, 1, 2, 8, 9; lengths 0, 2, 126, 127, masked and not
ByteSample == { 0, 2, 126, 129, 136, 137, 255 }

PassBuffers ==
    UNION { { AsSeq(f) : f \in [1..n -> ByteSample] } : n \in 0..MaxBuf }
    \cup DecoderStreams

\* an open connection whose buffer holds all the server has sent
PassInit ==
    /\ connected = TRUE
    /\ socket = "socket"
    /\ net \in PassBuffers
    /\ buffer = net
    /\ req = "upgraded"
    /\ sockState = "open"
    /\ sockError = FALSE
    /\ bytesRead = Len(net)
    /\ trace = << Call("connect", <<>>, TRUE), Emit("open", <<>>) >>
    /\ pc = "while"
    /\ Activated({NoFile})

\* the loop test and, when it holds, one iteration of the loop (132-176)
LoopIteration(masks) ==
    /\ pc = "while"
    /\ IF Len(buffer) < 2
       THEN /\ pc' = "idle"
            /\ UNCHANGED <<buffer, trace, connected, socket, sockState, sockError>>
       ELSE LET it == LoopBody(buffer, socket, masks)
                st == IF it.out # <<>> /\ it.out[1].kind = "write"
                      THEN SocketWrite(sockState) ELSE sockState
            IN  /\ buffer' = it.buffer
                /\ trace' = trace \o it.out
                /\ sockError' = (sockError \/ st # sockState)
                /\ IF it.closed
                   THEN _onClose(st)
                   ELSE sockState' = st /\ UNCHANGED <<connected, socket>>
                /\ pc' = IF it.returns THEN "idle" ELSE "while"
    /\ UNCHANGED <<req, net, bytesRead, extVars, gwVars>>

PassNext == \E masks \in MaskSeqs(Masks) : LoopIteration(masks)

\* the loop runs on: JavaScript runs _processFrames to its end
PassSpec == PassInit /\ [][PassNext]_vars /\ WF_vars(PassNext)

(***************************************************************************)
(* extension.js: file IPC, the processing flag and injectPrompt.  A call   *)
(* of injectPrompt in progress is the record of its locals; its pc names   *)
(* the await it is suspended at.  What an injection does to the chat       *)
(* window is not part of the state.                                        *)
(***************************************************************************)
\* calls of injectPrompt, writes of request.json by the CLI, watcher events
MaxInjections == 2

MaxWrites == 1

MaxEvents == 1

\* what request.json holds: a request with a prompt, nothing but blanks, JSON
\* without a prompt, text that is not JSON
FileContents == { "prompt", "blank", "noprompt", "badjson" }

\* the awaits of injectPrompt in order: clipboard.readText (509), the commands
\* that open and focus the chat (511-521), clipboard.writeText(prompt) (524),
\* the paste command (526), simulateEnterKey (530), clipboard.writeText(old) (533)
NextAwait(p) ==
    CASE p = "readText"  -> "focus"
      [] p = "focus"     -> "writeText"
      [] p = "writeText" -> "paste"
      [] p = "paste"     -> "enter"
      [] p = "enter"     -> "restore"
      [] p = "restore"   -> "done"

\* injectPrompt(prompt, newSession) up to its first await: the flag is set
\* and clipboard.readText() is called
injectPrompt(prompt) ==
    /\ isProcessing' = TRUE
    /\ inj' = inj (+) SetToBag({ [prompt |-> prompt, pc |-> "readText",
                                  old |-> "unset", startClip |-> clipboard] })
    /\ started' = started + 1
    /\ UNCHANGED clipboard

\* finally { isProcessing = false; }
Finally(flag) == FALSE

\* The await the call c of injectPrompt is suspended at completes (ok) or
\* rejects: the call goes on to its next await, or ends through catch and
\* finally.  When it throws and was called by processRequestFile, the catch of
\* processRequestFile is left to run as a later job.
Resume(c, ok) ==
    /\ BagIn(c, inj)
    /\ LET to   == IF ok THEN NextAwait(c.pc) ELSE "failed"
           next == [c EXCEPT !.pc = to,
                             !.old = IF c.pc = "readText" THEN clipboard ELSE @]
       IN  /\ clipboard' = IF ~ok THEN clipboard
                           ELSE IF c.pc = "writeText" THEN c.prompt
                           ELSE IF c.pc = "restore" THEN c.old
                           ELSE clipboard
           /\ IF to \in { "done", "failed" }
              THEN /\ inj' = inj (-) SetToBag({ c })
                   /\ isProcessing' = Finally(isProcessing)
              ELSE /\ inj' = (inj (-) SetToBag({ c })) (+) SetToBag({ next })
                   /\ UNCHANGED isProcessing
           /\ catches' = IF to = "failed" /\ c.prompt = "request"
                         THEN catches + 1 ELSE catches
    /\ UNCHANGED <<processTimer, retryTimers, startupTimer, requestFile, written, events,
                   started, fileCalls>>
    /\ UNCHANGED <<wsVars, pc, gwVars>>

\* the catch of processRequestFile for a rejected injectPrompt (494-497)
ProcessCatch ==
    /\ catches > 0
    /\ catches' = catches - 1
    /\ isProcessing' = FALSE
    /\ UNCHANGED <<processTimer, retryTimers, startupTimer, requestFile, written, events,
                   clipboard, inj, started, fileCalls>>
    /\ UNCHANGED <<wsVars, pc, gwVars>>

\* try { fs.unlinkSync(REQUEST_FILE); } catch (e) { /* ignore */ } on the file
\* that was just read: the file is gone, or stays when unlinkSync throws
unlinkSync(file, throws) == IF throws THEN file ELSE NoFile

\* processRequestFile(), run by a timer; pending: the retry timers that are
\* still pending when it runs; throws: fs.unlinkSync throws
processRequestFile(pending, throws) ==
    IF isProcessing
    THEN /\ retryTimers' = pending + 1
         /\ UNCHANGED <<isProcessing, requestFile, clipboard, inj, started, fileCalls>>
    ELSE /\ retryTimers' = pending
         /\ IF requestFile.content \in { "absent", "blank" }
            THEN UNCHANGED <<isProcessing, requestFile, clipboard, inj, started, fileCalls>>
            ELSE /\ requestFile' = unlinkSync(requestFile, throws)
                 /\ IF requestFile.content = "prompt"
                    THEN /\ started < MaxInjections
                         /\ injectPrompt("request")
                         /\ fileCalls' = Append(fileCalls, requestFile.id)
                    ELSE /\ isProcessing' = FALSE
                         /\ UNCHANGED <<clipboard, inj, started, fileCalls>>

\* the pending timer is left to fire
clearTimeout_Nothing(pending) == pending

\* if (processTimer) clearTimeout(processTimer): the timer the variable holds,
\* the one set last, no longer fires
clearTimeout(pending) == 0

\* scheduleProcess(): the 300 ms timer is set anew
scheduleProcess == processTimer' = clearTimeout(processTimer) + 1

\* the CLI writes request.json
WriteRequest(c) ==
    /\ written < MaxWrites
    /\ written' = written + 1
    /\ requestFile' = [id |-> written + 1, content |-> c]
    /\ UNCHANGED <<isProcessing, processTimer, retryTimers, startupTimer, events,
                   clipboard, inj, started, catches, fileCalls>>
    /\ UNCHANGED <<wsVars, pc, gwVars>>

\* fs.watch or the FileSystemWatcher reports request.json (53-64); a write
\* and the unlink give any number of events
FsEvent ==
    /\ written > 0
    /\ events < MaxEvents
    /\ events' = events + 1
    /\ scheduleProcess
    /\ UNCHANGED <<isProcessing, retryTimers, startupTimer, requestFile, written,
                   clipboard, inj, started, catches, fileCalls>>
    /\ UNCHANGED <<wsVars, pc, gwVars>>

\* the check 3 s after activation (98-103)
StartupCheck ==
    /\ startupTimer
    /\ startupTimer' = FALSE
    /\ IF requestFile.content # "absent" THEN scheduleProcess ELSE UNCHANGED processTimer
    /\ UNCHANGED <<isProcessing, retryTimers, requestFile, written, events, clipboard,
                   inj, started, catches, fileCalls>>
    /\ UNCHANGED <<wsVars, pc, gwVars>>

\* the timer of scheduleProcess fires
ProcessTimerFires ==
    /\ processTimer > 0
    /\ processTimer' = processTimer - 1
    /\ \E throws \in BOOLEAN : processRequestFile(retryTimers, throws)
    /\ UNCHANGED <<startupTimer, written, events, catches>>
    /\ UNCHANGED <<wsVars, pc, gwVars>>

\* a timer of line 474 fires
RetryTimerFires ==
    /\ retryTimers > 0
    /\ \E throws \in BOOLEAN : processRequestFile(retryTimers - 1, throws)
    /\ UNCHANGED <<processTimer, startupTimer, written, events, catches>>
    /\ UNCHANGED <<wsVars, pc, gwVars>>

\* the command polarApollo.sendPrompt with a prompt typed in (67-74)
ManualSend ==
    /\ injectPrompt("typed")
    /\ UNCHANGED <<processTimer, retryTimers, startupTimer, requestFile, written, events,
                   catches, fileCalls>>
    /\ UNCHANGED <<wsVars, pc, gwVars>>

\* handleAntigravitySend for a node.invoke of antigravity.send with a prompt,
\* up to the first await of injectPrompt (216-232); what follows the injection
\* waits for the output and sends the response
GatewayInvoke ==
    /\ injectPrompt("task")
    /\ UNCHANGED <<processTimer, retryTimers, startupTimer, requestFile, written, events,
                   catches, fileCalls>>
    /\ UNCHANGED <<wsVars, pc, gwVars>>

\* no connection yet, the extension activated, request.json absent or written
\* before the extension started
ExtInit ==
    /\ connected = FALSE
    /\ socket = "null"
    /\ buffer = <<>>
    /\ req = "idle"
    /\ sockState = "none"
    /\ sockError = FALSE
    /\ net = <<>>
    /\ bytesRead = 0
    /\ trace = <<>>
    /\ pc = "idle"
    /\ Activated({ NoFile, [id |-> 1, content |-> "prompt"] })

ExtNext ==
    \/ \E c \in FileContents : WriteRequest(c)
    \/ FsEvent
    \/ StartupCheck
    \/ ProcessTimerFires
    \/ RetryTimerFires
    \/ started < MaxInjections /\ ManualSend
    \/ started < MaxInjections /\ GatewayInvoke
    \/ \E c \in BagToSet(inj), ok \in BOOLEAN : Resume(c, ok)
    \/ ProcessCatch

ExtSpec == ExtInit /\ [][ExtNext]_vars

(***************************************************************************)
(* The gateway connection of extension.js: connectToGateway, its handlers, *)
(* scheduleReconnect and disconnectGateway, over the SimpleWebSocket       *)
(* objects it creates.  The trace holds, in order, the 'open' and 'close'  *)
(* events of these objects (data: the object's number) and the timers set  *)
(* by scheduleReconnect (data: the delay).                                 *)
(***************************************************************************)
\* SimpleWebSocket objects created over the life of the extension, at most
MaxConns == 2

\* Math.min(2000 * Math.pow(2, reconnectAttempts - 1), 30000)
Backoff(n) == Min(2000 * 2 ^ (n - 1), 30000)

\* scheduleReconnect(), called in a step that leaves the counter at n: the timer
\* set before is cleared, the counter goes up, the new timer is set
scheduleReconnect(n) ==
    /\ reconnectAttempts' = n + 1
    /\ reconnectTimer' = Backoff(n + 1)

\* connectToGateway() with gatewaySocket = gs: nothing when gs is connected,
\* else a new SimpleWebSocket gets the four listeners and connect() is called
connectToGateway(gs) ==
    IF gs # 0 /\ conns[gs].connected
    THEN UNCHANGED <<gatewaySocket, conns>>
    ELSE /\ Len(conns) < MaxConns
         /\ conns' = Append(conns, Connecting)
         /\ gatewaySocket' = Len(conns) + 1

\* gatewaySocket.on('open', ...) of connection i, after req.on('upgrade', ...)
\* of ws-client.js has set socket and connected
GatewayOpen(i) ==
    /\ conns[i].req = "pending"
    /\ conns' = [conns EXCEPT ![i] = [req |-> "upgraded", connected |-> TRUE,
                                      socket |-> "socket", sockState |-> "open"]]
    /\ reconnectAttempts' = 0
    /\ trace' = Append(trace, Emit("open", i))
    /\ UNCHANGED <<gatewaySocket, reconnectTimer, deactivated>>
    /\ UNCHANGED <<connected, socket, buffer, req, sockState, sockError, net, bytesRead, pc, extVars>>

\* gatewaySocket.on('error', ...) of connection i for a failed or timed out
\* upgrade request: the handler logs
GatewayHandshakeError(i) ==
    /\ conns[i].req = "pending"
    /\ conns' = [conns EXCEPT ![i].req = "failed"]
    /\ UNCHANGED <<gatewaySocket, reconnectTimer, reconnectAttempts, deactivated>>
    /\ UNCHANGED <<wsVars, pc, extVars>>

\* gatewaySocket.on('error', ...) of connection i for an error of its socket:
\* the handler logs; net.Socket destroys itself
GatewaySocketError(i) ==
    /\ conns[i].sockState \in { "open", "ended" }
    /\ conns' = [conns EXCEPT ![i].sockState = "destroyed"]
    /\ UNCHANGED <<gatewaySocket, reconnectTimer, reconnectAttempts, deactivated>>
    /\ UNCHANGED <<wsVars, pc, extVars>>

\* gatewaySocket.on('close', ...) of connection i, after _onClose() of
\* ws-client.js with its net.Socket in state st: a Close frame was decoded
\* (st: the socket as it is) or the socket's 'close' event came (st: closed)
GatewayClose(i, st) ==
    /\ conns' = [conns EXCEPT ![i].connected = FALSE,
                              ![i].socket = "null",
                              ![i].sockState = IF conns[i].socket # "null"
                                               THEN SocketDestroy(st) ELSE st]
    /\ gatewaySocket' = 0
    /\ scheduleReconnect(reconnectAttempts)
    /\ trace' = trace \o << Emit("close", i), Call("setTimeout", Backoff(reconnectAttempts + 1), TRUE) >>
    /\ UNCHANGED deactivated
    /\ UNCHANGED <<connected, socket, buffer, req, sockState, sockError, net, bytesRead, pc, extVars>>

\* the server's Close frame is decoded on connection i (ws-client.js 167-170)
GatewayCloseFrame(i) ==
    /\ conns[i].sockState \in { "open", "ended" }
    /\ GatewayClose(i, conns[i].sockState)

\* the 'close' event of the net.Socket of connection i (ws-client.js 45)
GatewaySocketClose(i) ==
    /\ conns[i].sockState \in { "open", "ended", "destroyed" }
    /\ GatewayClose(i, "closed")

\* the timer of scheduleReconnect fires
ReconnectTimerFires ==
    /\ reconnectTimer # 0
    /\ reconnectTimer' = 0
    /\ connectToGateway(gatewaySocket)
    /\ UNCHANGED <<reconnectAttempts, deactivated>>
    /\ UNCHANGED <<wsVars, pc, extVars>>

\* the command polarApollo.reconnect (85-88), registered until the extension
\* is disposed of
ManualReconnect ==
    /\ ~deactivated
    /\ connectToGateway(gatewaySocket)
    /\ UNCHANGED <<reconnectTimer, reconnectAttempts, deactivated>>
    /\ UNCHANGED <<wsVars, pc, extVars>>

\* disconnectGateway(), run when the extension is disposed of and by
\* deactivate(): the timer is cleared; close() of ws-client.js ends the socket
\* of gatewaySocket, if it has one, and clears its connected
disconnectGateway ==
    /\ IF reconnectTimer # 0 THEN reconnectTimer' = 0 ELSE UNCHANGED reconnectTimer
    /\ IF gatewaySocket # 0
       THEN /\ conns' = [conns EXCEPT
                           ![gatewaySocket].connected = FALSE,
                           ![gatewaySocket].sockState =
                               IF conns[gatewaySocket].socket # "null"
                               THEN SocketEnd(@) ELSE @]
            /\ gatewaySocket' = 0
       ELSE UNCHANGED <<gatewaySocket, conns>>
    /\ deactivated' = TRUE
    /\ UNCHANGED reconnectAttempts
    /\ UNCHANGED <<wsVars, pc, extVars>>

\* the extension after activate(): its first connection is connecting
GatewayInit ==
    /\ connected = FALSE
    /\ socket = "null"
    /\ buffer = <<>>
    /\ req = "idle"
    /\ sockState = "none"
    /\ sockError = FALSE
    /\ net = <<>>
    /\ bytesRead = 0
    /\ trace = <<>>
    /\ pc = "idle"
    /\ Activated({ NoFile })

GatewayNext ==
    \/ \E i \in DOMAIN conns : GatewayOpen(i)
    \/ \E i \in DOMAIN conns : GatewayHandshakeError(i)
    \/ \E i \in DOMAIN conns : GatewaySocketError(i)
    \/ \E i \in DOMAIN conns : GatewayCloseFrame(i)
    \/ \E i \in DOMAIN conns : GatewaySocketClose(i)
    \/ ReconnectTimerFires
    \/ ManualReconnect
    \/ disconnectGateway

GatewaySpec == GatewayInit /\ [][GatewayNext]_vars

(***************************************************************************)
(* Properties                                                              *)
(***************************************************************************)
IsCall(e, name) == e.kind = "call" /\ e.name = name

IsEmit(e, name) == e.kind = "emit" /\ e.name = name

IsWrite(e) == e.kind = "write"

\* the client's frame came back: the stream is the frame send() wrote
LoopedBack == Calls("send") # <<>> /\ net # <<>>

\* what the decoder emits and writes when it gets the whole stream at once
AtOnce == _processFrames(net, "socket", CHOOSE ms \in MaskSeqs(CodecMasks) : TRUE).out

\* C1: a frame delivered to _onData in chunks cut at any offsets gives no
\* 'message' event and consumes nothing before its last byte, and then exactly
\* the one 'message' event that delivering the whole frame at once gives.
C1_PartialDelivery ==
    LoopedBack =>
        /\ bytesRead < Len(net) =>
              /\ Emits("message") = <<>>
              /\ buffer = SubSeq(net, 1, bytesRead)
        /\ bytesRead = Len(net) =>
              /\ Len(Emits("message")) = 1
              /\ SubSeq(trace, 5, Len(trace)) = AtOnce

\* of the frame of a 126-byte payload only the first 3 bytes have arrived: the
\* cut is inside the 2-byte length
C1_Witness ==
    /\ LoopedBack
    /\ Len(net) = 8 + 126
    /\ bytesRead = 3
    /\ buffer = SubSeq(net, 1, 3)

\* C2: the frame _encodeFrame makes of a payload, fed to the decoder, gives
\* exactly one text message whose bytes are the payload, and leaves the receive
\* buffer empty.
C2_RoundTrip ==
    (LoopedBack /\ bytesRead = Len(net)) =>
        /\ Len(trace) = 5
        /\ IsEmit(trace[5], "message")
        /\ BufferFromUtf8(trace[5].data) = BufferFromUtf8(Calls("send")[1].data)
        /\ buffer = <<>>

\* a payload of 126 bytes, the first with a 2-byte length, has made the round trip
C2_Witness ==
    /\ LoopedBack
    /\ bytesRead = Len(net)
    /\ Len(Calls("send")[1].data) = 126
    /\ Len(Emits("message")) = 1
    /\ Emits("message")[1].data = AsciiString(126)
    /\ buffer = <<>>

\* a connection is not Open before its 'open' event, and after close() was
\* called, 'close' was emitted or the handshake failed
Closing(i) ==
    \/ IsCall(trace[i], "close")
    \/ IsEmit(trace[i], "close")
    \/ IsEmit(trace[i], "error") /\ \A j \in 1..(i - 1) : ~IsEmit(trace[j], "open")

NotOpen == Emits("open") = <<>> \/ \E i \in DOMAIN trace : Closing(i)

\* C3: send() called while the connection is not Open throws, writes nothing
\* and leaves the connection state and the receive buffer as they were.
C3_SendWhileNotOpenFails ==
    [][ ( /\ NotOpen
          /\ Len(trace') > Len(trace)
          /\ IsCall(trace'[Len(trace) + 1], "send") )
        => /\ ~trace'[Len(trace) + 1].ok
           /\ Len(trace') = Len(trace) + 1
           /\ UNCHANGED <<connected, socket, buffer, sockState>> ]_vars

\* C4: whatever closes a connection, 'close' is emitted to the caller once.
C4_SingleCloseEvent == Len(Emits("close")) <= 1

\* C5: at most one Close frame is ever written on a connection, however many
\* times close() is called.
C5_AtMostOneCloseFrame ==
    Cardinality({ i \in DOMAIN trace : IsWrite(trace[i]) /\ trace[i].data[1] = 136 }) <= 1

\* C6: once a Close frame is decoded the connection is closed for good, and
\* nothing that follows it in the receive buffer is dispatched: no 'message'
\* event and no Pong written after the 'close' event.
C6_CloseStopsDecoding ==
    \A i \in DOMAIN trace :
        IsEmit(trace[i], "close") =>
            /\ ~connected
            /\ \A j \in (i + 1)..Len(trace) :
                  /\ ~IsEmit(trace[j], "message")
                  /\ ~(IsWrite(trace[j]) /\ trace[j].data[1] = 138)

\* a Close frame and a text frame arrived in one chunk: the text frame stays
C6_Witness ==
    /\ net = CloseNormal \o TextHi
    /\ bytesRead = Len(net)
    /\ buffer = TextHi
    /\ Len(Emits("close")) = 1
    /\ Emits("message") = <<>>

\* C7: once the connection has been closed, connected is never true again and
\* no 'open' event follows.
C7_ClosedIsAbsorbing ==
    \A i \in DOMAIN trace :
        Closing(i) =>
            /\ ~connected
            /\ \A j \in (i + 1)..Len(trace) : ~IsEmit(trace[j], "open")

\* C8, as claimed: after every decode pass the receive buffer holds no complete
\* frame.
C8_NoCompleteFrameBuffered == ~HoldsCompleteFrame(buffer)

\* C8, amended: after every decode pass that did not end by decoding a Close
\* frame, the receive buffer holds no complete frame.
C8_NoCompleteFrameUnlessClose ==
    [][ (bytesRead' > bytesRead /\ Len(Emits("close"))' = Len(Emits("close")))
        => ~HoldsCompleteFrame(buffer') ]_vars

\* the first of two text frames was consumed, one byte of the second is kept
C8_Witness ==
    /\ net = TextHi \o TextHi
    /\ bytesRead = 5
    /\ buffer = << 129 >>
    /\ Len(Emits("message")) = 1

\* the stream begins with a well-formed Ping frame (payload of at most 125 bytes)
FirstIsPing == Len(net) >= 2 /\ net[1] = 137 /\ net[2] % 128 <= 125

FirstPingSize == (IF net[2] >= 128 THEN 6 ELSE 2) + (net[2] % 128)

FirstPingPayload ==
    IF net[2] >= 128
    THEN MaskPayload(SubSeq(net, 7, FirstPingSize), SubSeq(net, 3, 6))
    ELSE SubSeq(net, 3, FirstPingSize)

\* C9: a well-formed Ping frame decoded on an open connection makes the client
\* write one Pong frame (0x8A, mask bit set) with the Ping's payload, emits no
\* 'message' event and leaves the connection open.
C9_PingPong ==
    FirstIsPing =>
        /\ bytesRead < FirstPingSize => Len(trace) = 2
        /\ bytesRead >= FirstPingSize =>
              /\ Len(trace) >= 3
              /\ IsWrite(trace[3])
              /\ LET pong == trace[3].data
                     n == Len(FirstPingPayload)
                 IN  /\ pong[1] = 138
                     /\ pong[2] = 128 + n
                     /\ Len(pong) = 6 + n
                     /\ MaskPayload(SubSeq(pong, 7, 6 + n), SubSeq(pong, 3, 6))
                        = FirstPingPayload
        /\ (bytesRead >= FirstPingSize /\ Len(net) = FirstPingSize) =>
              /\ Len(trace) = 3
              /\ connected

\* a Ping with 125 bytes of payload was answered
C9_Witness ==
    /\ net = Ping(AsciiString(125))
    /\ bytesRead = Len(net)
    /\ Len(Writes) = 1
    /\ Len(Writes[1].data) = 131

\* C10: the frame _encodeFrame writes declares the payload's length in 7 bits
\* below 126 bytes, as 126 and 2 big-endian bytes below 65536 bytes, else as
\* 127 and 8 big-endian bytes of which the upper 4 are zero; the frame is the
\* header, 4 mask bytes and as many bytes as the payload.
C10_LengthClasses ==
    \A i \in DOMAIN trace :
        (IsCall(trace[i], "send") /\ trace[i].ok) =>
            LET n == Len(BufferFromUtf8(trace[i].data))
                f == trace[i + 1].data
            IN  /\ f[1] = 129
                /\ f[2] >= 128
                /\ IF n < 126
                   THEN f[2] - 128 = n /\ Len(f) = 2 + 4 + n
                   ELSE IF n < 65536
                   THEN /\ f[2] - 128 = 126
                        /\ f[3] * 256 + f[4] = n
                        /\ Len(f) = 4 + 4 + n
                   ELSE /\ f[2] - 128 = 127
                        /\ SubSeq(f, 3, 6) = << 0, 0, 0, 0 >>
                        /\ f[7] * 16777216 + f[8] * 65536 + f[9] * 256 + f[10] = n
                        /\ Len(f) = 10 + 4 + n

\* a payload of 126 bytes was framed with the 2-byte length
C10_Witness ==
    /\ Len(Writes) = 1
    /\ Len(Writes[1].data) = 8 + 126
    /\ SubSeq(Writes[1].data, 1, 4) = << 129, 254, 0, 126 >>

\* a XOR b by arithmetic: the sum without twice the common bits
XorArith(a, b) == a + b - 2 * And8(a, b)

\* send() has written its frame and nothing came back yet
JustSent == Len(Writes) = 1 /\ net = <<>> /\ Len(trace) = 4

\* C11: in the frame _encodeFrame writes, byte i of the masked payload is
\* payload[i] XOR mask[i mod 4] for the 4-byte mask the frame carries, and
\* unmasking the masked payload with the same key gives the payload back.
C11_Masking ==
    JustSent =>
        LET p      == BufferFromUtf8(Calls("send")[1].data)
            f      == Writes[1].data
            off    == Len(f) - Len(p)
            key    == SubSeq(f, off - 3, off)
            masked == SubSeq(f, off + 1, Len(f))
        IN  /\ off \in {6, 8, 14}
            /\ key \in CodecMasks
            /\ \A i \in 1..Len(p) :
                  masked[i] = XorArith(p[i], key[((i - 1) % 4) + 1])
            /\ MaskPayload(masked, key) = p

\* ten bytes were masked with the key ff 00 80 01: bytes 1 and 5 are inverted,
\* bytes 2 and 6 are as they were
C11_Witness ==
    /\ JustSent
    /\ Len(Writes[1].data) = 16
    /\ SubSeq(Writes[1].data, 3, 6) = << 255, 0, 128, 1 >>
    /\ Writes[1].data[7] = 255 - AsciiString(10)[1]
    /\ Writes[1].data[11] = 255 - AsciiString(10)[5]
    /\ Writes[1].data[8] = AsciiString(10)[2]
    /\ Writes[1].data[12] = AsciiString(10)[6]

\* the event at i is the 'error' of a failed handshake: no 'open' came before it
HandshakeError(i) ==
    IsEmit(trace[i], "error") /\ \A j \in 1..(i - 1) : ~IsEmit(trace[j], "open")

\* C12: when the upgrade request fails or times out, 'error' is emitted, and
\* from then on the connection is never Open: connected is false, no 'open'
\* event follows and every send() throws.
C12_FailedHandshakeIsTerminal ==
    /\ req = "failed" => \E i \in DOMAIN trace : HandshakeError(i)
    /\ \A i \in DOMAIN trace :
          HandshakeError(i) =>
              /\ req = "failed"
              /\ ~connected
              /\ socket = "null"
              /\ \A j \in (i + 1)..Len(trace) :
                    /\ ~IsEmit(trace[j], "open")
                    /\ IsCall(trace[j], "send") => ~trace[j].ok
                    /\ ~IsWrite(trace[j])

\* the handshake timed out and a later send() threw
C12_Witness ==
    /\ req = "failed"
    /\ Len(trace) >= 3
    /\ trace[2] = Emit("error", TimeoutMessage)
    /\ \E j \in 3..Len(trace) : IsCall(trace[j], "send") /\ ~trace[j].ok

\* the event at i is the 'error' of the socket of an Open connection
TransportError(i) ==
    IsEmit(trace[i], "error") /\ \E j \in 1..(i - 1) : IsEmit(trace[j], "open")

\* C13: once the socket's 'error' was emitted on an Open connection, connected
\* is false, every later send() throws and writes nothing, and no 'open' follows.
C13_TransportErrorIsTerminal ==
    \A i \in DOMAIN trace :
        TransportError(i) =>
            /\ ~connected
            /\ \A j \in (i + 1)..Len(trace) :
                  /\ ~IsEmit(trace[j], "open")
                  /\ IsCall(trace[j], "send") => ~trace[j].ok

\* C14: at most one injectPrompt is in progress at any time, and isProcessing
\* is true while one is.
C14_ProcessingLock ==
    /\ BagCardinality(inj) <= 1
    /\ BagCardinality(inj) > 0 => isProcessing

\* C15: when a call of injectPrompt returns or throws, the clipboard holds what
\* it held when the call started.
C15_ClipboardPreserved ==
    [][ \A c \in BagToSet(inj) :
          CopiesIn(c, inj') < CopiesIn(c, inj) /\ BagCardinality(inj') < BagCardinality(inj)
              => clipboard' = c.startClip ]_vars

\* C16: for one write of request.json, injectPrompt is called at most once.
C16_NoReprocessing ==
    \A w \in 1..written :
        Cardinality({ i \in DOMAIN fileCalls : fileCalls[i] = w }) <= 1

\* the bytes a 'data' event hands over in this step
Chunk == SubSeq(net, bytesRead + 1, bytesRead')

\* C17: a decode pass over a buffer that holds less than the whole of its first
\* frame (2, 4 or 10 bytes of header, 4 of key when masked, and the declared
\* payload) leaves the buffer as it is, emits nothing, writes nothing and leaves
\* the connection state as it is.
C17_NeedMoreDataConsumesNothing ==
    [][ (bytesRead' > bytesRead /\ ~HoldsCompleteFrame(buffer \o Chunk))
        => /\ buffer' = buffer \o Chunk
           /\ trace' = trace
           /\ UNCHANGED <<connected, socket, sockState>> ]_vars

\* of a masked Ping with 125 bytes of payload, 2 bytes of header and 3 of the 4
\* bytes of the key are buffered
C17_Witness ==
    /\ net = MaskedPing(AsciiString(125), << 1, 2, 3, 4 >>)
    /\ bytesRead = 5
    /\ buffer = SubSeq(net, 1, 5)
    /\ Len(trace) = 2
    /\ connected

\* the payload of a whole frame, unmasked
PayloadOf(f) ==
    LET h   == HeaderOf(f)
        raw == SubSeq(f, h + 1, h + DeclaredOf(f))
    IN  IF f[2] >= 128 THEN MaskPayload(raw, SubSeq(f, h - 3, h)) ELSE raw

\* the stream begins with a Ping frame, of any length, and all of it was read
FirstPingRead ==
    /\ Len(net) >= 2
    /\ net[1] = 137
    /\ bytesRead >= HeaderOf(net) + DeclaredOf(net)

\* C18: for a Ping frame of any payload length that the decoder accepts, the
\* Pong written is a well-formed masked frame: it declares the length of the
\* Ping's payload, is as long as its header and that payload, and its payload
\* unmasked is the Ping's payload.
C18_PongEchoesAnyPing ==
    FirstPingRead =>
        /\ Len(trace) >= 3
        /\ IsWrite(trace[3])
        /\ LET pong == trace[3].data
           IN  /\ pong[1] = 138
               /\ pong[2] >= 128
               /\ Len(pong) >= HeaderOf(pong)
               /\ DeclaredOf(pong) = DeclaredOf(net)
               /\ Len(pong) = HeaderOf(pong) + DeclaredOf(net)
               /\ PayloadOf(pong) = PayloadOf(net)

ShortPong(i) == trace[i].data[1] = 138 /\ Len(trace[i].data) <= 131

\* every frame written has FIN, no reserved bit, the mask bit and the key drawn
\* right before the payload as written; every frame but the Pong for a Ping of
\* more than 125 bytes declares the length of its payload
OutboundFinalMaskedButLongPong ==
    \A i \in DOMAIN trace :
        IsWrite(trace[i]) =>
            LET f == trace[i].data
            IN  /\ Len(f) >= 6
                /\ f[1] \in { 129, 136, 138 }
                /\ f[2] >= 128
                /\ (f[1] # 138 \/ ShortPong(i)) =>
                      /\ Len(f) = HeaderOf(f) + DeclaredOf(f)
                      /\ SubSeq(f, HeaderOf(f) - 3, HeaderOf(f)) \in Masks
                /\ f[1] = 138 => SubSeq(f, 3, 6) \in Masks

\* C20: for every buffer content, headers that do not fit the data included,
\* the decode pass ends: an iteration of its loop that does not return takes 2
\* bytes or more off the buffer, the loop is left after finitely many
\* iterations, and what it leaves is what _processFrames computes.
C20_DecodePassTerminates ==
    /\ [][ (pc = "while" /\ pc' = "while") => Len(buffer') + 2 <= Len(buffer) ]_vars
    /\ <>(pc = "idle")
    /\ [](pc = "idle" =>
            LET r == _processFrames(net, "socket", CHOOSE ms \in MaskSeqs(Masks) : TRUE)
            IN  /\ buffer = r.buffer
                /\ SubSeq(trace, 3, Len(trace)) = r.out
                /\ connected = ~r.closed)

\* an empty text frame was taken, then the header of a masked frame with an
\* 8-byte length of which nothing has arrived ended the pass
C20_Witness ==
    /\ net = << 129, 0, 129, 255 >>
    /\ pc = "idle"
    /\ buffer = << 129, 255 >>
    /\ Len(Emits("message")) = 1

\* C21: an iteration of the decode loop over a buffer that begins with a whole
\* frame of opcode Continuation (0), Binary (2) or Pong (10) takes exactly that
\* frame's bytes off the buffer, emits nothing, writes nothing, leaves the
\* connection state as it is and goes on to the loop test for the next frame.
C21_IgnoredOpcodes ==
    [][ ( /\ pc = "while"
          /\ HoldsCompleteFrame(buffer)
          /\ buffer[1] % 16 \in { 0, 2, 10 } )
        => /\ buffer' = SubSeq(buffer, HeaderOf(buffer) + DeclaredOf(buffer) + 1,
                               Len(buffer))
           /\ trace' = trace
           /\ UNCHANGED <<connected, socket, sockState>>
           /\ pc' = "while" ]_vars

\* a masked Pong was dropped and the text frame behind it was delivered
C21_Witness ==
    /\ net = MaskedPong \o TextHi
    /\ pc = "idle"
    /\ buffer = <<>>
    /\ SubSeq(trace, 3, Len(trace)) = << Emit("message", Hi) >>
    /\ connected
    /\ socket = "socket"

\* the timer set at i of the trace of the gateway connection
IsTimer(i) == IsCall(trace[i], "setTimeout")

\* the connections whose 'close' event came after the last 'open' event before i
LostBefore(i) ==
    LET opens == { j \in 1..i : IsEmit(trace[j], "open") }
        from  == IF opens = {} THEN 1 ELSE CHOOSE j \in opens : \A k \in opens : k <= j
    IN  { trace[j].data : j \in { k \in from..i : IsEmit(trace[k], "close") } }

\* every connection has emitted 'close' once at most
ClosedOnce ==
    \A c \in DOMAIN conns :
        Cardinality({ j \in DOMAIN trace : IsEmit(trace[j], "close") /\ trace[j].data = c }) <= 1

\* C22: the timer scheduleReconnect sets when n connections were lost since the
\* last 'open' event waits min(2 s * 2^(n-1), 30 s): one lost connection adds
\* one to n, and the first loss after an 'open' waits 2 s.
C22_ReconnectBackoff ==
    \A i \in DOMAIN trace :
        IsTimer(i) =>
            trace[i].data = Min(2000 * 2 ^ (Cardinality(LostBefore(i)) - 1), 30000)

\* the delays are the claimed sequence as long as no connection emits 'close'
\* twice
BackoffWhenClosedOnce == ClosedOnce => C22_ReconnectBackoff

\* scheduleProcess() is called in this step: a watcher event, or the startup
\* check that finds request.json
ScheduleStep ==
    \/ events' > events
    \/ startupTimer /\ ~startupTimer' /\ requestFile.content # "absent"

\* C23: at most one timer of scheduleProcess is pending at any time; after
\* every call of scheduleProcess, however many came before it, exactly one is
\* pending; and when it fires, running processRequestFile once, none is left.
C23_Debounce ==
    /\ [](processTimer <= 1)
    /\ [][ ScheduleStep => processTimer' = 1 ]_vars
    /\ [][ processTimer' < processTimer => processTimer' = 0 ]_vars

\* the startup check and a watcher event have both called scheduleProcess,
\* processRequestFile has not run yet (the request is still there), and one
\* timer is pending
C23_Witness ==
    /\ ~startupTimer
    /\ events = 1
    /\ requestFile = [id |-> 1, content |-> "prompt"]
    /\ written = 1
    /\ started = 0
    /\ retryTimers = 0
    /\ processTimer = 1

RECURSIVE TextsSent(_)

\* the texts of the text frames at the head of a stream of whole frames, in
\* order, up to its first Close frame
TextsSent(s) ==
    IF ~HoldsCompleteFrame(s) THEN <<>>
    ELSE LET n    == HeaderOf(s) + DeclaredOf(s)
             rest == SubSeq(s, n + 1, Len(s))
         IN  IF s[1] % 16 = 8 THEN <<>>
             ELSE IF s[1] % 16 = 1
             THEN << toStringUtf8(PayloadOf(SubSeq(s, 1, n))) >> \o TextsSent(rest)
             ELSE TextsSent(rest)

\* the texts of the 'message' events so far
TextsEmitted == [i \in 1..Len(Emits("message")) |-> Emits("message")[i].data]

\* C24: the 'message' events are the text frames the server has sent after its
\* upgrade response, one event per frame and in the order sent: never an event
\* that is not the next frame's, and all of them once every byte the server
\* sent has reached the client, bytes that came with the upgrade response
\* included.
C24_NoInboundFrameLost ==
    /\ Len(TextsEmitted) <= Len(TextsSent(net))
    /\ \A i \in 1..Len(TextsEmitted) : TextsEmitted[i] = TextsSent(net)[i]
    /\ bytesRead = Len(net) => Len(TextsEmitted) = Len(TextsSent(net))

\* C25: a step that emits 'message' starts with connected true, and no
\* 'message' event follows a call of close().
C25_MessagesOnlyWhileOpen ==
    /\ [][ Len(Emits("message"))' > Len(Emits("message")) => connected ]_vars
    /\ [](\A i \in DOMAIN trace :
            IsCall(trace[i], "close") =>
                \A j \in (i + 1)..Len(trace) : ~IsEmit(trace[j], "message"))

\* the connection was shut at i of the trace: close() wrote its Close frame
\* and ended the socket, or _onClose() destroyed the socket and emitted 'close'
ShutAt(i) ==
    \/ IsCall(trace[i], "close") /\ i < Len(trace) /\ IsWrite(trace[i + 1])
    \/ IsEmit(trace[i], "close")

\* C26: after close() has written the Close frame and ended the socket, and
\* after _onClose() has destroyed it, nothing more is written to the socket:
\* no Pong for a Ping that arrives later, no text frame, no other frame.
C26_NoWriteAfterClose ==
    \A i \in DOMAIN trace :
        ShutAt(i) =>
            \A j \in (i + 1)..Len(trace) :
                IsWrite(trace[j]) => (IsCall(trace[i], "close") /\ j = i + 1)

\* the case of the Pong alone: no Pong frame is written after a call of close()
NoPongAfterClose ==
    \A i \in DOMAIN trace :
        IsCall(trace[i], "close") =>
            \A j \in (i + 1)..Len(trace) :
                ~(IsWrite(trace[j]) /\ trace[j].data[1] = 138)

\* nothing is written after a 'close' event
NoWriteAfterCloseEvent ==
    \A i \in DOMAIN trace :
        IsEmit(trace[i], "close") =>
            \A j \in (i + 1)..Len(trace) : ~IsWrite(trace[j])

\* connection i is Connecting (its upgrade request is out) or Open
Live(i) == conns[i].req = "pending" \/ conns[i].connected

\* C27: as long as the extension is active, at most one of the connections
\* made by connectToGateway is Connecting or Open, and gatewaySocket is that
\* connection.
C27_SingleGatewayConnection ==
    ~deactivated =>
        /\ Cardinality({ i \in DOMAIN conns : Live(i) }) <= 1
        /\ \A i \in DOMAIN conns : Live(i) => gatewaySocket = i

\* C28: once disconnectGateway() has run, no timer of scheduleReconnect is
\* pending, none is set, and connectToGateway creates no connection, whatever
\* events of the closed socket or of a handshake in flight come later.
C28_DisconnectIsFinal ==
    /\ [][ deactivated' => reconnectTimer' = 0 ]_vars
    /\ [][ deactivated => Len(conns') = Len(conns) ]_vars

====
